---- MODULE Spec2Model ----
(***************************************************************************)
(* Knowledge-graph construction pipeline (api/app/service/kg_service.py    *)
(* and api/app/api/v1/routers/knowledge_graph.py).                         *)
(*                                                                         *)
(* Spec      : one build job (KGService._build_kg_async) running on a      *)
(*             worker thread of the executor, its durable Task row, the    *)
(*             in-memory progress map, and the progress-poll handler       *)
(*             get_kg_progress running on the event loop.                  *)
(* SpecJob   : the job alone, over any texts of the pools, the durable     *)
(*             store raising a bounded number of times.                    *)
(* SpecDb    : Spec with the durable store raising a bounded number of     *)
(*             times.                                                      *)
(* SpecGraph : the graph-store protocol: Persist sessions                  *)
(*             (_save_to_neo4j) of several graphs, delete_knowledge_graph  *)
(*             and query_kg.                                               *)
(* SpecRestart : Spec with the server process restarting: the in-memory    *)
(*             progress map and the worker are lost, the rows stay.        *)
(* SpecPool  : the tasks of one KGService on its ThreadPoolExecutor.        *)
(* SpecUnit  : single calls of functions of the algorithm packages         *)
(*             (entity extraction, validation, alignment, deduplication).  *)
(***************************************************************************)
EXTENDS Integers, Sequences, FiniteSets, TLC

\* ------------------------------------------------------------------ bounds
MaxFiles == 2        \* number of file ids in a request (1..MaxFiles)
MaxEntities == 2     \* mentions extracted over all texts of one job
MaxTriples == 1      \* triples extracted over all texts of one job
MaxDbFailures == 1   \* durable-store (SQL) operations that raise during a run
NumGraphs == 2       \* graphs built in SpecGraph
MaxTasks == 6        \* tasks submitted in SpecPool

VARIABLES
    \* ---- the job (worker thread) ----
    pc,                 \* position of the worker in _build_kg_async
    ret,                \* position to continue at after the Task-row sync
    pending,            \* values _update_progress still has to write to the row
    file_count,         \* len(file_ids)
    idx,                \* loop index i of the current stage
    text_count,         \* len(texts) (= len(processed_texts))
    all_entities,       \* all_entities
    aligned_entities,   \* aligned_entities
    all_relations,      \* all_relations
    completed_triples,  \* completed_triples
    job_kg,             \* kg_id generated in the Persist stage (0: none yet)
    db_failures,        \* SQL operations that have raised so far
    documents,          \* per file id of the request: what the file holds
    \* ---- shared progress state ----
    task_progress,      \* KGService.task_progress[task_id] (NoEntry: absent)
    task_row,           \* the Task row of the job (NoEntry: absent)
    \* ---- the poll handler (event loop) ----
    poll_pc,            \* position inside get_kg_progress
    poll_task,          \* the Task object loaded at the start of the poll
    progress_data,      \* progress_data being built by the poll
    last_response,      \* the last KGProgressResponse returned (NoEntry: none)
    \* ---- graph store and graph headers ----
    user_nodes,         \* ids of the (:User) nodes
    nodes,              \* entity nodes: [label, id, name, kg_id]
    owns,               \* (:User)-[:OWNS]->(node): <<user id, node key>>
    edges,              \* relation edges: <<node key, type, node key>>
    kg_rows,            \* KnowledgeGraph rows: [kg_id, user_id, status]
    session,            \* per graph: the _save_to_neo4j session of its job
    \* ---- SpecGraph: deletions and queries ----
    deletion,           \* per graph: position inside delete_knowledge_graph
    query_result,       \* last result of query_kg (NoEntry: none)
    \* ---- SpecPool: the executor of KGService ----
    executor,           \* ThreadPoolExecutor: [work_queue, running]
    pool_progress,      \* KGService.task_progress over the tasks of SpecPool
    \* ---- SpecUnit: one call of a function of the algorithm packages ----
    call                \* the call made last: its arguments and its result

auxvars == <<executor, pool_progress, call>>
poolvars == <<executor, pool_progress>>
jobvars == <<pc, ret, pending, file_count, idx, text_count, all_entities,
             aligned_entities, all_relations, completed_triples, job_kg, db_failures,
             documents, auxvars>>
progvars == <<task_progress, task_row>>
pollvars == <<poll_pc, poll_task, progress_data, last_response>>
graphvars == <<user_nodes, nodes, owns, edges>>
storevars == <<user_nodes, nodes, owns, edges, kg_rows, session>>
extravars == <<deletion, query_result>>
vars == <<jobvars, progvars, pollvars, storevars, extravars>>

NoEntry == [absent |-> TRUE]
NoKg == 0
\* the tasks submitted in SpecPool, and the executor before any submit
PoolTasks == 1..MaxTasks
IdleExecutor == [work_queue |-> << >>, running |-> {}]
KgIds == 1..NumGraphs
Users == {"u1", "u2"}
JobUser == "u1"

\* ------------------------------------------------------- extraction inputs
\* What the extractors can return.  entity_1 occurs twice with different
\* names: CRF numbers its mentions from entity_1 again in every extract call.
EntityPool ==
    { [id |-> "entity_1", name |-> "baidu", type |-> "org"],
      [id |-> "entity_2", name |-> "wang",  type |-> "Person"],
      [id |-> "entity_1", name |-> "ernie", type |-> "org"] }
EntityIds == {e.id : e \in EntityPool}
Entity(name) == CHOOSE e \in EntityPool : e.name = name
\* the mentions the texts of a job are written about
JobEntityPool == {Entity("baidu"), Entity("wang")}
RelationTypes == {"leads"}
TriplePool == EntityIds \X RelationTypes \X EntityIds

SeqsUpTo(S, n) == UNION {[1..m -> S] : m \in 0..n}
Range(s) == {s[i] : i \in 1..Len(s)}

\* A file of the request: missing or unparseable (skipped by the Parse stage),
\* or a text with the mentions and triples the extractors return on it.
BadFile == [ok |-> FALSE, entities |-> << >>, triples |-> << >>]
TextFile(entities, triples) == [ok |-> TRUE, entities |-> entities, triples |-> triples]
\* texts (= processed_texts) after the Parse stage, in input order
Texts(docs) == SelectSeq(docs, LAMBDA d : d.ok)
RECURSIVE Concat(_)
Concat(ss) == IF Len(ss) = 0 THEN << >> ELSE Head(ss) \o Concat(Tail(ss))

\* ------------------------------------------------------------ sanitization
\* _clean_for_neo4j on the strings of the pools (none of them contains one of
\* the replaced characters \ / : " * ? < > | or leading/trailing '_' or ' ').
clean_for_neo4j(value) == IF value = "" THEN "Unknown" ELSE value

\* str.upper() / upper-casing of the first character, on the pool strings.
Upper(s) == CASE s = "leads" -> "LEADS" [] s = "Unknown" -> "UNKNOWN" [] OTHER -> s
Capitalize(s) == CASE s = "org" -> "Org" [] OTHER -> s

\* safe_type of _save_to_neo4j
safe_type(entity_type) == Capitalize(clean_for_neo4j(entity_type))
safe_rel_type(rel_type) == Upper(clean_for_neo4j(rel_type))

\* ---------------------------------------------------------- entity alignment
AlignThreshold == 80   \* threshold = 0.8, in percent

\* fuzz.ratio of the preprocessed names, in percent, on the pool names
NameRatio(n1, n2) ==
    IF n1 = n2 THEN 100
    ELSE IF {n1, n2} = {"baidu", "ernie"} THEN 20 ELSE 22
NameLen(n) == CASE n = "wang" -> 4 [] OTHER -> 5

\* _calculate_similarity >= threshold, scaled by 1000
Similar(e1, e2) ==
    LET name_similarity == NameRatio(e1.name, e2.name)
        type_similarity == IF e1.type = e2.type THEN 100 ELSE 50
    IN  \/ name_similarity = 100
        \/ 7 * name_similarity + 3 * type_similarity >= 10 * AlignThreshold

\* an inner loop that merges a similar entity without marking it processed
RECURSIVE AbsorbUnmarked(_, _, _, _)
AbsorbUnmarked(entities, j, cur, processed) ==
    IF j > Len(entities) THEN [cur |-> cur, processed |-> processed]
    ELSE IF j \in processed \/ ~Similar(cur, entities[j])
         THEN AbsorbUnmarked(entities, j + 1, cur, processed)
         ELSE AbsorbUnmarked(entities, j + 1,
                             [cur EXCEPT !.merged_ids = Append(@, entities[j].id)], processed)

\* inner loop of align_entities: absorb entities[j..] into current
RECURSIVE Absorb(_, _, _, _)
Absorb(entities, j, cur, processed) ==
    IF j > Len(entities) THEN [cur |-> cur, processed |-> processed]
    ELSE IF j \in processed \/ ~Similar(cur, entities[j])
         THEN Absorb(entities, j + 1, cur, processed)
         ELSE Absorb(entities, j + 1,
                     [cur EXCEPT !.merged_ids = Append(@, entities[j].id),
                                 !.name = IF NameLen(entities[j].name) > NameLen(@)
                                          THEN entities[j].name ELSE @],
                     processed \cup {j})

RECURSIVE AlignFrom(_, _, _, _)
AlignFrom(entities, i, processed, aligned) ==
    IF i > Len(entities) THEN aligned
    ELSE IF i \in processed THEN AlignFrom(entities, i + 1, processed, aligned)
    ELSE LET start == [id |-> entities[i].id, name |-> entities[i].name,
                       type |-> entities[i].type, merged_ids |-> <<entities[i].id>>]
             r == Absorb(entities, i + 1, start, processed)
         IN  AlignFrom(entities, i + 1, r.processed \cup {i}, Append(aligned, r.cur))

\* EntityAlignment.align_entities (a list of at most one entity is returned
\* as it is, without merged_ids)
align_entities(entities) ==
    IF Len(entities) <= 1
    THEN [i \in 1..Len(entities) |->
             [id |-> entities[i].id, name |-> entities[i].name,
              type |-> entities[i].type, merged_ids |-> << >>]]
    ELSE AlignFrom(entities, 1, {}, << >>)

\* ------------------------------------------------------- TransE completion
\* train(): the entities and relation types that get an embedding
TrainedEntities(relations) == {t[1] : t \in Range(relations)} \cup {t[3] : t \in Range(relations)}
TrainedRelations(relations) == {t[2] : t \in Range(relations)}

\* _generate_negative_sample redraws until the replacement differs from the
\* replaced entity: with a single trained entity it never returns.
TrainingHangs(relations) == Cardinality(TrainedEntities(relations)) = 1

\* complete(): the tails scored for (head, relation)
CandidateTails(entities, relations, relation, head) ==
    {tail \in {e.id : e \in Range(entities)} :
        /\ tail # head
        /\ <<head, relation, tail>> \notin Range(relations)
        /\ tail \in TrainedEntities(relations)}

\* the possible outcomes of sorted(similarities.items())[:3], the distances
\* being the result of the random initialisation and training
TopTails(cands) ==
    {T \in SUBSET cands : Cardinality(T) = IF Cardinality(cands) < 3 THEN Cardinality(cands) ELSE 3}

RECURSIVE SetToSeq(_)
SetToSeq(S) == IF S = {} THEN << >>
               ELSE LET x == CHOOSE y \in S : TRUE IN <<x>> \o SetToSeq(S \ {x})

\* TransEKnowledgeCompletion.complete: the lists it can return (one list per
\* choice of top tails; the order inside the list is not modelled)
complete(entities, relations) ==
    LET heads == {e.id : e \in Range(entities)} \cap TrainedEntities(relations)
        slots == TrainedRelations(relations) \X heads
        picks == {f \in [slots -> SUBSET EntityIds] :
                     \A s \in slots : f[s] \in TopTails(CandidateTails(entities, relations, s[1], s[2]))}
    IN  {SetToSeq(UNION {{<<s[2], s[1], tail>> : tail \in f[s]} : s \in slots}) : f \in picks}

\* ---------------------------------------------------------- graph statements
\* Every statement is run with session.run outside a transaction: it is
\* committed on its own (auto-commit).  (:User) nodes with equal id are
\* identified: every statement reaches them through the id property only.
NodeKey(n) == <<n.label, n.id>>

\* MERGE (e:<safe_type> {id: $id}) SET e.name = $name, e.kg_id = $kg_id
MergeEntity(N, entity, kg_id) ==
    LET label == safe_type(entity.type)
    IN  {n \in N : NodeKey(n) # <<label, entity.id>>}
        \cup {[label |-> label, id |-> entity.id, name |-> entity.name, kg_id |-> kg_id]}

\* MERGE (u:User {id: $user_id})-[:OWNS]->(e)
MergeOwns(O, entity, user_id) == O \cup {<<user_id, <<safe_type(entity.type), entity.id>>>>}

\* a relation statement that matches its two nodes by id alone
MergeRelationById(N, E, triple, kg_id) ==
    E \cup {<<NodeKey(s), safe_rel_type(triple[2]), NodeKey(o)>> :
               s \in {n \in N : n.id = triple[1]},
               o \in {n \in N : n.id = triple[3]}}

\* MATCH (s {id: $subj_id, kg_id: $kg_id}) MATCH (o {id: $obj_id, kg_id: $kg_id})
\* MERGE (s)-[r:<safe_rel_type>]->(o)
MergeRelation(N, E, triple, kg_id) ==
    E \cup {<<NodeKey(s), safe_rel_type(triple[2]), NodeKey(o)>> :
               s \in {n \in N : n.id = triple[1] /\ n.kg_id = kg_id},
               o \in {n \in N : n.id = triple[3] /\ n.kg_id = kg_id}}

ClosedSession == [pc |-> "closed"]
OpenSession(user_id, entities, relations) ==
    [pc |-> "user", user_id |-> user_id, entities |-> entities, relations |-> relations,
     ei |-> 1, ri |-> 1]

\* _save_to_neo4j, statement by statement ---------------------------------
\* session.run("MERGE (u:User {id: $user_id})")
SaveUser(k) ==
    /\ session[k].pc = "user"
    /\ user_nodes' = user_nodes \cup {session[k].user_id}
    /\ session' = [session EXCEPT ![k].pc = "entities"]
    /\ UNCHANGED <<nodes, owns, edges, kg_rows>>

\* one iteration of "for entity in entities"
SaveEntity(k) ==
    /\ session[k].pc = "entities"
    /\ session[k].ei <= Len(session[k].entities)
    /\ LET entity == session[k].entities[session[k].ei]
       IN  /\ nodes' = MergeEntity(nodes, entity, k)
           /\ owns' = MergeOwns(owns, entity, session[k].user_id)
           /\ user_nodes' = user_nodes \cup {session[k].user_id}
    /\ session' = [session EXCEPT ![k].ei = @ + 1]
    /\ UNCHANGED <<edges, kg_rows>>

\* end of the entity loop ("if relations:")
SaveEntitiesDone(k) ==
    /\ session[k].pc = "entities"
    /\ session[k].ei > Len(session[k].entities)
    /\ session' = [session EXCEPT ![k].pc =
                      IF Len(session[k].relations) > 0 THEN "relations" ELSE "done"]
    /\ UNCHANGED <<user_nodes, nodes, owns, edges, kg_rows>>

\* one iteration of "for subj_id, rel_type, obj_id in relations"
SaveRelation(k) ==
    /\ session[k].pc = "relations"
    /\ LET triple == session[k].relations[session[k].ri]
       IN  edges' = MergeRelation(nodes, edges, triple, k)
    /\ session' = [session EXCEPT ![k].ri = @ + 1,
                                  ![k].pc = IF session[k].ri = Len(session[k].relations)
                                            THEN "done" ELSE "relations"]
    /\ UNCHANGED <<user_nodes, nodes, owns, kg_rows>>

\* a statement raises (Neo4jError is logged and re-raised, the session closed):
\* what the earlier statements committed stays
SaveRaise(k) ==
    /\ session[k].pc \in {"user", "entities", "relations"}
    /\ session' = [session EXCEPT ![k].pc = "failed"]
    /\ UNCHANGED <<user_nodes, nodes, owns, edges, kg_rows>>

SaveStep(k) ==
    \/ SaveUser(k) \/ SaveEntity(k) \/ SaveEntitiesDone(k) \/ SaveRelation(k) \/ SaveRaise(k)

\* ============================================================== the job ====
joblocals == <<file_count, idx, text_count, all_entities, aligned_entities,
               all_relations, completed_triples, job_kg, db_failures, documents, auxvars>>
others == <<task_row, pollvars, storevars, extravars>>
ProgressEntry(progress, status, message, stage) ==
    [progress |-> progress, status |-> status, message |-> message, stage |-> stage]

\* _update_progress, first half: the in-memory map is written, the Task row
\* is written by SyncLoad and SyncRow; the worker continues at next
update_progress(progress, status, message, stage, next) ==
    /\ task_progress' = ProgressEntry(progress, status, message, stage)
    /\ pending' = ProgressEntry(progress, status, message, stage)
    /\ pc' = "sync"
    /\ ret' = next

\* the Task row after "task.progress = ...; task.status = ...; task.message = ...;
\* task.stage = ...; db.commit()" on the Task object loaded: the UPDATE sets the
\* attributes whose value differs from the loaded one
SyncedRow(row, loaded, entry) ==
    [row EXCEPT !.progress = IF entry.progress # loaded.progress THEN entry.progress ELSE @,
                !.status = IF entry.status # loaded.status THEN entry.status ELSE @,
                !.message = IF entry.message # loaded.message THEN entry.message ELSE @,
                !.stage = IF entry.stage # loaded.stage THEN entry.stage ELSE @]

\* _update_progress, second half: "task = db.query(Task)...first()" in a
\* session of its own
SyncLoad ==
    /\ pc = "sync"
    /\ pc' = "sync_commit"
    /\ pending' = [entry |-> pending, loaded |-> task_row]
    /\ UNCHANGED <<ret, joblocals, task_progress, task_row, pollvars, storevars, extravars>>

\* _update_progress, second half: the four assignments and the commit (no
\* row: nothing is written)
SyncRow ==
    /\ pc = "sync_commit"
    /\ task_row' = IF pending.loaded = NoEntry THEN task_row
                   ELSE SyncedRow(task_row, pending.loaded, pending.entry)
    /\ pc' = ret
    /\ pending' = NoEntry
    /\ UNCHANGED <<ret, joblocals, task_progress, pollvars, storevars, extravars>>

\* a statement on the durable store raises (at most MaxDbFailures times)
DbRaises ==
    /\ db_failures < MaxDbFailures
    /\ db_failures' = db_failures + 1

jobdata == <<file_count, idx, text_count, all_entities, aligned_entities,
             all_relations, completed_triples, job_kg, documents, auxvars>>

\* _update_progress, second half, the sync raises: logged, the row is not written
SyncRowRaises ==
    /\ pc \in {"sync", "sync_commit"}
    /\ DbRaises
    /\ pc' = ret
    /\ pending' = NoEntry
    /\ UNCHANGED <<ret, jobdata, task_progress, task_row, pollvars, storevars, extravars>>

\* create_knowledge_graph: map entry, Task row, submit to the executor.
\* If the row cannot be written the exception is re-raised and nothing is
\* submitted.
CreateKnowledgeGraph ==
    /\ pc = "new"
    /\ file_count' = Len(documents)
    /\ task_progress' = ProgressEntry(0, "pending", "submitted", "init")
    /\ task_row' = [progress |-> 0, status |-> "pending", message |-> "submitted",
                    stage |-> "init", kg_id |-> NoKg]
    /\ pc' = "submitted"
    /\ UNCHANGED <<ret, pending, idx, text_count, all_entities, aligned_entities,
                   all_relations, completed_triples, job_kg, documents, auxvars, db_failures>>
    /\ UNCHANGED <<pollvars, storevars, extravars>>

\* create_knowledge_graph, the Task row cannot be written: the exception is
\* re-raised, the map entry stays, nothing is submitted
CreateKnowledgeGraphRaises ==
    /\ pc = "new"
    /\ DbRaises
    /\ file_count' = Len(documents)
    /\ task_progress' = ProgressEntry(0, "pending", "submitted", "init")
    /\ pc' = "rejected"
    /\ UNCHANGED <<ret, pending, idx, text_count, all_entities, aligned_entities,
                   all_relations, completed_triples, job_kg, documents, auxvars>>
    /\ UNCHANGED <<task_row, pollvars, storevars, extravars>>


\* stage 1: the worker starts the job
StartJob ==
    /\ pc = "submitted"
    /\ update_progress(5, "processing", "start", "init", "parse")
    /\ UNCHANGED <<joblocals, others>>

\* a loop head that adds ten points for every file
ParseReportPerFile ==
    /\ pc = "parse"
    /\ idx < file_count
    /\ update_progress(5 + 10 * (idx + 1), "processing", "parse", "parse", "parse_file")
    /\ UNCHANGED <<joblocals, others>>

\* stage 2, head of "for i, file_id in enumerate(file_ids)"
ParseReport ==
    /\ pc = "parse"
    /\ idx < file_count
    /\ update_progress(5 + (10 * (idx + 1)) \div file_count, "processing", "parse", "parse",
                       "parse_file")
    /\ UNCHANGED <<joblocals, others>>

\* a loop body that takes every file for a text
ParseFileUnchecked ==
    /\ pc = "parse_file"
    /\ text_count' = text_count + 1
    /\ idx' = idx + 1
    /\ pc' = "parse"
    /\ UNCHANGED <<ret, pending, file_count, all_entities, aligned_entities, all_relations,
                   completed_triples, job_kg, db_failures, documents, auxvars, task_progress, others>>

\* stage 2, body of the loop: the file is missing under every probed
\* extension or fails to parse (skipped), or yields text
ParseFile ==
    /\ pc = "parse_file"
    /\ text_count' = IF documents[idx + 1].ok THEN text_count + 1 ELSE text_count
    /\ idx' = idx + 1
    /\ pc' = "parse"
    /\ UNCHANGED <<ret, pending, file_count, all_entities, aligned_entities, all_relations,
                   completed_triples, job_kg, db_failures, documents, auxvars, task_progress, others>>

\* an outer handler that reports the failure with the progress reset
AbortJobReset ==
    /\ pc \in {"parse", "parse_file"}
    /\ update_progress(0, "failed", "aborted", "aborted", "returned")
    /\ UNCHANGED <<joblocals, others>>

\* the outer "except Exception" of _build_kg_async: an exception outside the
\* stage handlers (resolving the upload directory, constructing the parser,
\* probing a path)
AbortJob ==
    /\ pc \in {"parse", "parse_file"}
    /\ LET current_progress == task_progress.progress
       IN  update_progress(IF current_progress + 5 < 100 THEN current_progress + 5 ELSE 100,
                           "failed", "aborted", "aborted", "returned")
    /\ UNCHANGED <<joblocals, others>>

\* an end of the Parse stage that reports the failure and goes on
ParseEndContinue ==
    /\ pc = "parse"
    /\ idx = file_count
    /\ IF text_count = 0
       THEN update_progress(100, "failed", "no_valid_file", "parse_failed", "preprocess")
       ELSE update_progress(15, "processing", "parsed", "parse_done", "preprocess")
    /\ idx' = 0
    /\ UNCHANGED <<file_count, text_count, all_entities, aligned_entities, all_relations,
                   completed_triples, job_kg, db_failures, documents, auxvars, others>>

\* stage 2, after the loop: "if not texts"
ParseEnd ==
    /\ pc = "parse"
    /\ idx = file_count
    /\ IF text_count = 0
       THEN update_progress(100, "failed", "no_valid_file", "parse_failed", "returned")
       ELSE update_progress(15, "processing", "parsed", "parse_done", "preprocess")
    /\ idx' = 0
    /\ UNCHANGED <<file_count, text_count, all_entities, aligned_entities, all_relations,
                   completed_triples, job_kg, db_failures, documents, auxvars, others>>

\* stage 3: one text is preprocessed, or the stage raises
Preprocess ==
    /\ pc = "preprocess"
    /\ idx < text_count
    /\ \/ /\ update_progress(15 + (10 * (idx + 1)) \div text_count, "processing",
                             "preprocess", "preprocess", "preprocess")
          /\ idx' = idx + 1
       \/ /\ update_progress(25, "failed", "preprocess_failed", "preprocess_failed", "returned")
          /\ UNCHANGED idx
    /\ UNCHANGED <<file_count, text_count, all_entities, aligned_entities, all_relations,
                   completed_triples, job_kg, db_failures, documents, auxvars, others>>

PreprocessEnd ==
    /\ pc = "preprocess"
    /\ idx = text_count
    /\ update_progress(25, "processing", "preprocessed", "preprocess_done", "entity")
    /\ idx' = 0
    /\ UNCHANGED <<file_count, text_count, all_entities, aligned_entities, all_relations,
                   completed_triples, job_kg, db_failures, documents, auxvars, others>>

\* stage 4: the mentions of one text are added to all_entities, or the stage raises
ExtractEntities ==
    /\ pc = "entity"
    /\ idx < text_count
    /\ \/ /\ all_entities' = all_entities \o Texts(documents)[idx + 1].entities
          /\ update_progress(25 + (15 * (idx + 1)) \div text_count, "processing",
                             "entity", "entity", "entity")
          /\ idx' = idx + 1
       \/ /\ update_progress(40, "failed", "entity_failed", "entity_failed", "returned")
          /\ UNCHANGED <<idx, all_entities>>
    /\ UNCHANGED <<file_count, text_count, aligned_entities, all_relations,
                   completed_triples, job_kg, db_failures, documents, auxvars, others>>

ExtractEntitiesEnd ==
    /\ pc = "entity"
    /\ idx = text_count
    /\ update_progress(40, "processing", "entities_extracted", "entity_done", "align")
    /\ idx' = 0
    /\ UNCHANGED <<file_count, text_count, all_entities, aligned_entities, all_relations,
                   completed_triples, job_kg, db_failures, documents, auxvars, others>>

\* an Align stage that returns on a failure without reporting it
AlignSilent ==
    /\ pc = "align"
    /\ \/ /\ aligned_entities' = align_entities(all_entities)
          /\ update_progress(50, "processing", "aligned", "align_done", "relation")
       \/ /\ pc' = "returned"
          /\ UNCHANGED <<ret, pending, task_progress, aligned_entities>>
    /\ UNCHANGED <<file_count, idx, text_count, all_entities, all_relations,
                   completed_triples, job_kg, db_failures, documents, auxvars, others>>

\* stage 5
Align ==
    /\ pc = "align"
    /\ \/ /\ aligned_entities' = align_entities(all_entities)
          /\ update_progress(50, "processing", "aligned", "align_done", "relation")
       \/ /\ update_progress(50, "failed", "align_failed", "align_failed", "returned")
          /\ UNCHANGED aligned_entities
    /\ UNCHANGED <<file_count, idx, text_count, all_entities, all_relations,
                   completed_triples, job_kg, db_failures, documents, auxvars, others>>

\* QwenRelationExtraction.extract(text, entities).  A triple of a text states a
\* relation between two of its mentions; the answer names them by the ids of
\* the entity list the extractor works with.
Mention(id) == CHOOSE e \in JobEntityPool : e.id = id
Words(text) ==
    {e.name : e \in Range(text.entities)}
        \cup UNION {{Mention(t[1]).name, Mention(t[3]).name} : t \in Range(text.triples)}
\* f"entity_{uuid.uuid4().hex[:8]}": an id no extracted entity carries
FreshId(name) == IF name = "baidu" THEN "entity_a1" ELSE "entity_a2"
\* the names the typed patterns of the local regex bank match in a text
BasicWords(text) == {e.name : e \in Range(text.entities)}
\* _fallback_extract(text, force_extend): the typed patterns and, when forced
\* or when they match nothing, the extended ones; the words found as entities
fallback_extract(text, force_extend) ==
    LET found == IF force_extend \/ BasicWords(text) = {} THEN Words(text) ELSE BasicWords(text)
    IN  SetToSeq({[id |-> FreshId(n), name |-> n, type |-> "concept"] : n \in found})
\* with fewer than two entities the list is supplemented by the locally
\* extracted entities of unseen name, and replaces the list handed in
combined_entities(text, entities) ==
    IF Len(entities) < 2
    THEN entities \o SelectSeq(fallback_extract(text, TRUE),
                               LAMBDA e : e.name \notin {x.name : x \in Range(entities)})
    ELSE entities
\* _validate_relation: both ids are ids of the list the extractor worked with
extract(text, entities) ==
    LET combined == combined_entities(text, entities)
        names    == {e.name : e \in Range(combined)}
        IdOf(n)  == (CHOOSE e \in Range(combined) : e.name = n).id
        stated   == SelectSeq(text.triples,
                              LAMBDA t : Mention(t[1]).name \in names /\ Mention(t[3]).name \in names)
    IN  IF Len(combined) < 2 THEN << >>
        ELSE [i \in 1..Len(stated) |->
                <<IdOf(Mention(stated[i][1]).name), stated[i][2], IdOf(Mention(stated[i][3]).name)>>]

\* stage 6: the triples of one text are added to all_relations, or the stage raises
ExtractRelations ==
    /\ pc = "relation"
    /\ idx < text_count
    /\ \/ /\ all_relations' = all_relations \o extract(Texts(documents)[idx + 1], aligned_entities)
          /\ update_progress(50 + (15 * (idx + 1)) \div text_count, "processing",
                             "relation", "relation", "relation")
          /\ idx' = idx + 1
       \/ /\ update_progress(65, "failed", "relation_failed", "relation_failed", "returned")
          /\ UNCHANGED <<idx, all_relations>>
    /\ UNCHANGED <<file_count, text_count, all_entities, aligned_entities,
                   completed_triples, job_kg, db_failures, documents, auxvars, others>>

ExtractRelationsEnd ==
    /\ pc = "relation"
    /\ idx = text_count
    /\ update_progress(65, "processing", "relations_extracted", "relation_done", "complete")
    /\ idx' = 0
    /\ UNCHANGED <<file_count, text_count, all_entities, aligned_entities, all_relations,
                   completed_triples, job_kg, db_failures, documents, auxvars, others>>

\* stage 7: completed_triples = all_relations.copy(); with enable_completion
\* (a field of the request, read only here) the result of complete() replaces it
Complete ==
    /\ pc = "complete"
    /\ \/ \* enable_completion, complete() returns
          /\ ~TrainingHangs(all_relations)
          /\ \E result \in complete(aligned_entities, all_relations) :
                /\ completed_triples' = result
                /\ update_progress(75, "processing", "completed", "completion_done", "persist")
       \/ \* enable_completion, the strategy raises
          /\ completed_triples' = all_relations
          /\ update_progress(75, "processing", "completion_failed", "completion_skipped",
                             "persist")
       \/ \* not enable_completion
          /\ completed_triples' = all_relations
          /\ update_progress(75, "processing", "completion_disabled", "completion_skipped",
                             "persist")
    /\ UNCHANGED <<file_count, idx, text_count, all_entities, aligned_entities, all_relations,
                   job_kg, db_failures, documents, auxvars, others>>

\* stage 7, enable_completion: train() never leaves _generate_negative_sample
CompleteHang ==
    /\ pc = "complete"
    /\ TrainingHangs(all_relations)
    /\ completed_triples' = all_relations
    /\ pc' = "training"
    /\ UNCHANGED <<ret, pending, file_count, idx, text_count, all_entities, aligned_entities,
                   all_relations, job_kg, db_failures, documents, auxvars, task_progress, others>>

\* stage 8, first part: the KnowledgeGraph row is committed with status
\* processing, then _save_to_neo4j is entered; if the row cannot be written
\* the stage fails
\* "kg = KnowledgeGraph(kg_id, user_id, status='processing'); db.commit()" and
\* the entry into _save_to_neo4j
BeginPersist(kg_id, user_id, entities, triples) ==
    /\ kg_rows' = kg_rows \cup {[kg_id |-> kg_id, user_id |-> user_id, status |-> "processing"]}
    /\ session' = [session EXCEPT ![kg_id] = OpenSession(user_id, entities, triples)]

PersistBegin ==
    /\ pc = "persist"
    /\ job_kg' = 1
    /\ BeginPersist(1, JobUser, aligned_entities, completed_triples)
    /\ pc' = "saving"
    /\ UNCHANGED <<ret, pending, task_progress, db_failures>>
    /\ UNCHANGED <<file_count, idx, text_count, all_entities, aligned_entities, all_relations,
                   completed_triples, documents, auxvars, task_row, pollvars, graphvars, extravars>>

\* stage 8, the KnowledgeGraph row cannot be committed: the stage fails
PersistBeginRaises ==
    /\ pc = "persist"
    /\ DbRaises
    /\ update_progress(90, "failed", "persist_failed", "persist_failed", "returned")
    /\ UNCHANGED <<jobdata, others>>

\* stage 8, second part: _save_to_neo4j has returned or raised
PersistEnd ==
    /\ pc = "saving"
    /\ \/ /\ session[job_kg].pc = "done"
          /\ update_progress(90, "processing", "saved", "persist_done", "visualize")
       \/ /\ session[job_kg].pc = "failed"
          /\ update_progress(90, "failed", "persist_failed", "persist_failed", "returned")
    /\ UNCHANGED <<joblocals, others>>

\* stage 9 (enable_visualization is read only here)
Visualize ==
    /\ pc = "visualize"
    /\ \/ update_progress(95, "processing", "visualized", "visualize_done", "finalize")
       \/ update_progress(95, "processing", "visualize_disabled", "visualize_skipped", "finalize")
    /\ UNCHANGED <<joblocals, others>>

\* stage 10: the task is reported completed
\* a final report with a status of its own
FinalizeSuccess ==
    /\ pc = "finalize"
    /\ update_progress(100, "success", "built", "done", "finalize_kg")
    /\ UNCHANGED <<joblocals, others>>

Finalize ==
    /\ pc = "finalize"
    /\ update_progress(100, "completed", "built", "done", "finalize_kg")
    /\ UNCHANGED <<joblocals, others>>

\* stage 10, "kg.status = 'completed'; db.commit()"; an exception is logged,
\* rolled back, and the job returns
CompletedKg(rows, kg_id) ==
    {IF r.kg_id = kg_id THEN [r EXCEPT !.status = "completed"] ELSE r : r \in rows}

FinalizeKg ==
    /\ pc = "finalize_kg"
    /\ kg_rows' = CompletedKg(kg_rows, job_kg)
    /\ pc' = "finalize_task"
    /\ UNCHANGED <<ret, pending, joblocals, task_progress, task_row,
                   pollvars, graphvars, session, extravars>>

\* stage 10, either commit raises: logged, rolled back, the job returns
FinalizeRaises ==
    /\ pc \in {"finalize_kg", "finalize_task"}
    /\ DbRaises
    /\ pc' = "returned"
    /\ UNCHANGED <<ret, pending, jobdata, task_progress, task_row,
                   pollvars, storevars, extravars>>

\* stage 10, "task.kg_id = kg_id; task.status = 'completed'; db.commit()"
FinalizeTask ==
    /\ pc = "finalize_task"
    /\ task_row' = IF task_row = NoEntry THEN task_row
                   ELSE [task_row EXCEPT !.kg_id = job_kg, !.status = "completed"]
    /\ pc' = "returned"
    /\ UNCHANGED <<ret, pending, joblocals, task_progress, pollvars, storevars, extravars>>

\* ============================================================ the poll ====
\* get_kg_progress is a coroutine without an await: the event loop runs one
\* poll at a time, while the worker thread runs between its statements.
ResponseOf(row) ==
    [progress |-> row.progress, status |-> row.status, message |-> row.message,
     stage |-> row.stage, kg_id |-> row.kg_id]

\* the fields of a returned KGProgressResponse that are kept for comparison
\* with the next response
Returned(data) == [progress |-> data.progress, status |-> data.status, kg_id |-> data.kg_id]

\* "task = db.query(Task)...first()" and progress_data from the row; the
\* response is returned at once unless the row says processing and the map
\* has the task
PollLoad ==
    /\ poll_pc = "idle"
    /\ task_row # NoEntry
    /\ IF task_row.status = "processing" /\ task_progress # NoEntry
       THEN /\ poll_task' = task_row
            /\ progress_data' = ResponseOf(task_row)
            /\ poll_pc' = "memory"
            /\ UNCHANGED last_response
       ELSE /\ last_response' = Returned(ResponseOf(task_row))
            /\ UNCHANGED <<poll_pc, poll_task, progress_data>>
    /\ UNCHANGED <<jobvars, progvars, storevars, extravars>>

\* "memory_progress = kg_service.task_progress[task_id].copy(); progress_data.update(...)";
\* the map entry has no kg_id key
PollMemory ==
    /\ poll_pc = "memory"
    /\ progress_data' = [progress_data EXCEPT !.progress = task_progress.progress,
                                              !.status = task_progress.status,
                                              !.message = task_progress.message,
                                              !.stage = task_progress.stage]
    /\ poll_pc' = "commit"
    /\ UNCHANGED <<poll_task, last_response, jobvars, progvars, storevars, extravars>>

\* a write-back of every field of progress_data, the status included
PollWriteAll(row, loaded, data) ==
    [row EXCEPT !.progress = data.progress, !.status = data.status,
                !.stage = data.stage, !.message = data.message]

\* the row after "task.progress = ...; task.stage = ...; task.message = ...; db.commit()":
\* the UPDATE sets the attributes whose value differs from the loaded one
PollWrite(row, loaded, data) ==
    [row EXCEPT !.progress = IF data.progress # loaded.progress THEN data.progress ELSE @,
                !.stage = IF data.stage # loaded.stage THEN data.stage ELSE @,
                !.message = IF data.message # loaded.message THEN data.message ELSE @]

\* the write-back and the response; if the commit raises the request fails
\* without a response
PollCommit ==
    /\ poll_pc = "commit"
    /\ task_row' = PollWrite(task_row, poll_task, progress_data)
    /\ last_response' = Returned(progress_data)
    /\ poll_pc' = "idle"
    /\ poll_task' = NoEntry
    /\ progress_data' = NoEntry
    /\ UNCHANGED <<jobvars, task_progress, storevars, extravars>>

\* the commit of the write-back raises: the request fails without a response
PollCommitRaises ==
    /\ poll_pc = "commit"
    /\ DbRaises
    /\ poll_pc' = "idle"
    /\ poll_task' = NoEntry
    /\ progress_data' = NoEntry
    /\ UNCHANGED <<pc, ret, pending, jobdata, task_progress, task_row, last_response,
                   storevars, extravars>>

\* ====================================================== the graph store ====
\* What the jobs of SpecGraph persist: the sample text, and a text whose only
\* mention is numbered entity_1 again
GraphInputs ==
    { [entities |-> align_entities(<<Entity("baidu"), Entity("wang")>>),
       triples |-> <<<<"entity_2", "leads", "entity_1">>>>],
      [entities |-> align_entities(<<Entity("ernie")>>), triples |-> << >>] }

\* A query is answered between two statements on the store (it writes nothing
\* and no statement reads its result): no query is being answered
NoQuery == query_result = NoEntry

\* the users that may submit the job of graph k: the first graph is u1's
GraphUsers(k) == IF k = 1 THEN {JobUser} ELSE Users

\* stage 8 of the job that builds graph k (kg_id is a fresh uuid: no graph is
\* built twice)
GraphBuild(k) ==
    /\ NoQuery
    /\ session[k].pc = "closed"
    /\ \A r \in kg_rows : r.kg_id # k
    /\ deletion[k] = "idle"
    /\ \E user_id \in GraphUsers(k), input \in GraphInputs :
          BeginPersist(k, user_id, input.entities, input.triples)
    /\ UNCHANGED <<jobvars, progvars, pollvars, graphvars, extravars>>

\* verify_kg_ownership / the lookup at the head of delete_knowledge_graph
verify_kg_ownership(kg_id, user_id) ==
    \E r \in kg_rows : r.kg_id = kg_id /\ r.user_id = user_id

OwnerOf(kg_id) == (CHOOSE r \in kg_rows : r.kg_id = kg_id).user_id

\* the nodes "MATCH (n) WHERE n.kg_id = $kg_id" binds
KgNodes(N, kg_id) == {NodeKey(n) : n \in {m \in N : m.kg_id = kg_id}}

\* delete_knowledge_graph by the owner of the graph (any other caller gets
\* False and nothing is touched): the KnowledgeGraph row is found
DeleteBegin(k) ==
    /\ NoQuery
    /\ deletion[k] = "idle"
    /\ \E user_id \in Users : verify_kg_ownership(k, user_id)
    /\ deletion' = [deletion EXCEPT ![k] = "edges"]
    /\ UNCHANGED <<jobvars, progvars, pollvars, storevars, query_result>>

\* "MATCH (n) WHERE n.kg_id = $kg_id OPTIONAL MATCH (n)-[r]->()
\*  OPTIONAL MATCH ()-[r2]->(n) DELETE r, r2": every relationship at a node of
\* the graph goes, the OWNS relationships from the users included
DeleteEdges(k) ==
    /\ NoQuery
    /\ deletion[k] = "edges"
    /\ LET K == KgNodes(nodes, k)
       IN  /\ edges' = {e \in edges : e[1] \notin K /\ e[3] \notin K}
           /\ owns' = {o \in owns : o[2] \notin K}
    /\ deletion' = [deletion EXCEPT ![k] = "nodes"]
    /\ UNCHANGED <<jobvars, progvars, pollvars, user_nodes, nodes, kg_rows, session,
                   query_result>>

\* the nodes "MATCH (u:User {id: $user_id})-[:OWNS]->(n) WHERE n.kg_id = $kg_id
\* OR (n.kg_id IS NULL AND ...)" binds (every node of the model has a kg_id)
OwnedKgNodes(N, O, kg_id, user_id) ==
    {n \in N : n.kg_id = kg_id /\ <<user_id, NodeKey(n)>> \in O}

\* "... DELETE n": a bound node still has the OWNS relationship it was matched
\* through, and the store refuses to delete a node that has relationships;
\* with nothing bound the statement deletes nothing
DeleteNodes(k) ==
    /\ NoQuery
    /\ deletion[k] = "nodes"
    /\ deletion' = [deletion EXCEPT ![k] =
                       IF OwnedKgNodes(nodes, owns, k, OwnerOf(k)) = {} THEN "row" ELSE "failed"]
    /\ UNCHANGED <<jobvars, progvars, pollvars, storevars, query_result>>

\* a statement of the deletion raises Neo4jError: logged and re-raised
DeleteRaise(k) ==
    /\ NoQuery
    /\ deletion[k] \in {"edges", "nodes"}
    /\ deletion' = [deletion EXCEPT ![k] = "failed"]
    /\ UNCHANGED <<jobvars, progvars, pollvars, storevars, query_result>>

\* "db.delete(kg); db.commit(); return True"
DeleteRow(k) ==
    /\ NoQuery
    /\ deletion[k] = "row"
    /\ kg_rows' = {r \in kg_rows : r.kg_id # k}
    /\ deletion' = [deletion EXCEPT ![k] = "deleted"]
    /\ UNCHANGED <<jobvars, progvars, pollvars, graphvars, session, query_result>>

\* ---------------------------------------------------------------- query_kg
\* str.__contains__ on the names of the pool
Contains(name, part) == name = part \/ (part = "a" /\ name \in {"baidu", "wang"})

\* the three shapes of query: {"entity": ...}, {"relation": ...}, and a
\* dictionary with neither key (what the router passes: KGQueryRequest.dict())
Queries(kg_id) ==
    { [entity |-> "a"], [relation |-> "leads"], [kg_id |-> kg_id, query |-> "q"] }

NodeAt(N, key) == CHOOSE n \in N : NodeKey(n) = key

\* KGService.query_kg: the nodes and edges of the records returned
query_kg(user_id, query) ==
    LET owned == {n \in nodes : <<user_id, NodeKey(n)>> \in owns}
        e_set == IF "entity" \in DOMAIN query
                 THEN {n \in owned : Contains(n.name, query.entity)}
                 ELSE owned
        r_set == IF "entity" \notin DOMAIN query /\ "relation" \in DOMAIN query
                 THEN {r \in edges : /\ r[1] \in {NodeKey(n) : n \in owned}
                                     /\ r[2] = Upper(clean_for_neo4j(query.relation))}
                 ELSE {r \in edges : r[1] \in {NodeKey(n) : n \in e_set}}
        ends  == {NodeAt(nodes, r[1]) : r \in r_set} \cup {NodeAt(nodes, r[3]) : r \in r_set}
    IN  [nodes |-> IF "entity" \notin DOMAIN query /\ "relation" \in DOMAIN query
                   THEN ends ELSE e_set \cup ends,
         edges |-> r_set]

\* a query of a user for a graph of theirs (query_knowledge_graph checks the
\* ownership and passes the user and the request on to query_kg)
QueryKg ==
    /\ query_result = NoEntry
    /\ \E user_id \in Users, k \in KgIds :
          /\ verify_kg_ownership(k, user_id)
          /\ \E query \in Queries(k) :
                query_result' = [user_id |-> user_id, kg_id |-> k,
                                 result |-> query_kg(user_id, query)]
    /\ UNCHANGED <<jobvars, progvars, pollvars, storevars, deletion>>

\* the result has been handed to the caller
QueryReturn ==
    /\ query_result # NoEntry
    /\ query_result' = NoEntry
    /\ UNCHANGED <<jobvars, progvars, pollvars, storevars, deletion>>

\* ======================================================== specification ====
\* the state after KGService() and the stores are set up, before the request
InitCommon ==
    /\ pc = "new" /\ ret = "none" /\ pending = NoEntry
    /\ file_count = 0 /\ idx = 0 /\ text_count = 0
    /\ all_entities = << >> /\ aligned_entities = << >>
    /\ all_relations = << >> /\ completed_triples = << >>
    /\ job_kg = NoKg /\ db_failures = 0
    /\ task_progress = NoEntry /\ task_row = NoEntry
    /\ poll_pc = "idle" /\ poll_task = NoEntry /\ progress_data = NoEntry
    /\ last_response = NoEntry
    /\ user_nodes = {} /\ nodes = {} /\ owns = {} /\ edges = {}
    /\ kg_rows = {}
    /\ session = [k \in KgIds |-> ClosedSession]
    /\ deletion = [k \in KgIds |-> "idle"]
    /\ query_result = NoEntry
    /\ executor = IdleExecutor
    /\ pool_progress = [t \in PoolTasks |-> NoEntry]
    /\ call = NoEntry

\* Spec: every readable file of the request holds the same short text
SampleText == TextFile(<<Entity("baidu"), Entity("wang")>>, <<<<"entity_2", "leads", "entity_1">>>>)
Init ==
    /\ InitCommon
    /\ \E n \in 1..MaxFiles : documents \in [1..n -> {BadFile, SampleText}]

\* SpecJob: the files hold any texts over the pools, with at most MaxEntities
\* mentions and MaxTriples triples over the whole request
JobTriplePool == {<<"entity_2", "leads", "entity_1">>, <<"entity_1", "leads", "entity_1">>}
JobFiles == {BadFile} \cup {TextFile(es, ts) : es \in SeqsUpTo(JobEntityPool, MaxEntities),
                                              ts \in SeqsUpTo(JobTriplePool, MaxTriples)}
InitJob ==
    /\ InitCommon
    /\ \E n \in 1..MaxFiles : documents \in [1..n -> JobFiles]
    /\ Len(Concat([i \in 1..Len(documents) |-> documents[i].entities])) <= MaxEntities
    /\ Len(Concat([i \in 1..Len(documents) |-> documents[i].triples])) <= MaxTriples

SessionStep ==
    /\ \E k \in KgIds : SaveStep(k)
    /\ UNCHANGED <<jobvars, progvars, pollvars, extravars>>

Worker ==
    \/ CreateKnowledgeGraph \/ StartJob \/ SyncLoad \/ SyncRow
    \/ ParseReport \/ ParseFile \/ ParseEnd \/ AbortJob
    \/ Preprocess \/ PreprocessEnd
    \/ ExtractEntities \/ ExtractEntitiesEnd
    \/ Align
    \/ ExtractRelations \/ ExtractRelationsEnd
    \/ Complete
    \/ PersistBegin \/ SessionStep \/ PersistEnd
    \/ Visualize \/ Finalize \/ FinalizeKg \/ FinalizeTask

WorkerDbRaises ==
    \/ CreateKnowledgeGraphRaises \/ SyncRowRaises \/ PersistBeginRaises \/ FinalizeRaises

Poll == PollLoad \/ PollMemory \/ PollCommit

\* the job and the polls, the durable store answering every statement
Next == Worker \/ Poll
Spec == Init /\ [][Next]_vars

\* the job alone, over any texts (a single trained entity included, on which
\* training does not end), the durable store raising at most MaxDbFailures times
NextJob == Worker \/ CompleteHang \/ WorkerDbRaises
SpecJob == InitJob /\ [][NextJob]_vars

\* the job and the polls, the durable store raising at most MaxDbFailures times
NextDb == Worker \/ WorkerDbRaises \/ Poll \/ PollCommitRaises
SpecDb == Init /\ [][NextDb]_vars

\* the graph store under the persist stages of NumGraphs jobs, deletions and
\* queries.  The status of the KnowledgeGraph rows is not followed further.
GraphSessionStep == NoQuery /\ SessionStep
NextGraph ==
    \/ \E k \in KgIds : GraphBuild(k)
    \/ GraphSessionStep
    \/ \E k \in KgIds : DeleteBegin(k) \/ DeleteEdges(k) \/ DeleteNodes(k) \/ DeleteRaise(k)
                         \/ DeleteRow(k)
    \/ QueryKg
    \/ QueryReturn
InitGraph == InitCommon /\ documents = << >>
SpecGraph == InitGraph /\ [][NextGraph]_vars

\* ============================================================== claims ====
\* the order of the task statuses: pending, processing, then a terminal one
StatusRank(status) ==
    CASE status = "pending" -> 0 [] status = "processing" -> 1 [] OTHER -> 2

\* a terminal status stays, any other status stays or moves on
Forward(old, new) == new = old \/ StatusRank(new) > StatusRank(old)

\* C1: of two progress polls of a task, one returning before the other starts,
\* the later reports a progress not below the earlier one's, however the
\* worker's reports and Task-row syncs fall between the steps of the polls.
C1_ProgressNeverDecreases ==
    [][(last_response # NoEntry /\ last_response' # NoEntry)
          => last_response'.progress >= last_response.progress]_vars

\* a poll that is about to answer with more than the previous answer, the
\* worker having written the Task row since this poll loaded it
C1_Witness ==
    /\ last_response # NoEntry
    /\ poll_pc = "commit"
    /\ progress_data.progress > last_response.progress
    /\ poll_task.progress # task_row.progress

\* C2: a Task row whose status is completed has progress 100 and a kg_id, and
\* so has every poll response whose status is completed.
C2_CompletedHasKgId ==
    /\ (task_row # NoEntry /\ task_row.status = "completed")
          => (task_row.progress = 100 /\ task_row.kg_id # NoKg)
    /\ (last_response # NoEntry /\ last_response.status = "completed")
          => (last_response.progress = 100 /\ last_response.kg_id # NoKg)

C4_PollLeavesRow == [][Poll => task_row' = task_row]_vars

\* C5: the report that makes a task failed carries the progress of the report
\* before it.
C5_FailureKeepsProgress ==
    [][(task_progress # NoEntry /\ task_progress' # NoEntry
        /\ task_progress.status # "failed" /\ task_progress'.status = "failed")
          => task_progress'.progress = task_progress.progress]_vars

\* C6: the triples handed to the graph writer contain every triple that
\* relation extraction produced, whether completion is disabled, fails or
\* succeeds.
C6_ObservedTriplesPersisted ==
    session[1].pc # "closed" => Range(all_relations) \subseteq Range(session[1].relations)

\* C7: once delete_knowledge_graph has returned success for a graph that was
\* persisted, the store holds no node with that graph's kg_id and no edge at
\* such a node.
C7_DeleteLeavesNothing ==
    \A k \in KgIds :
        (deletion[k] = "deleted" /\ session[k].pc = "done")
           => /\ KgNodes(nodes, k) = {}
              /\ \A e \in edges : e[1] \notin KgNodes(nodes, k) /\ e[3] \notin KgNodes(nodes, k)

\* C8: a query of a user for one of their graphs returns only nodes whose
\* kg_id is that graph's, whatever the shape of the query.
C8_QueryReturnsOwnGraph ==
    query_result # NoEntry
       => \A n \in query_result.result.nodes : n.kg_id = query_result.kg_id

\* C9: a node changes its kg_id, name or label only in a step of the persist
\* session of the graph whose kg_id it carries.
C9_OtherJobsLeaveNodes ==
    [][\A n \in nodes : n \in nodes' \/ session'[n.kg_id] # session[n.kg_id]]_vars

\* C10: when the persist session of a graph has failed, the store holds no
\* node with that graph's kg_id and no edge at such a node.
C10_PersistAllOrNothing ==
    \A k \in KgIds :
        session[k].pc = "failed"
           => /\ KgNodes(nodes, k) = {}
              /\ \A e \in edges : e[1] \notin KgNodes(nodes, k) /\ e[3] \notin KgNodes(nodes, k)

\* C11: when the job has returned, the Task row records the status and the
\* progress of the job's last report, also when a statement on the durable
\* store has raised during the job.
C11_FinalRowWritten ==
    (pc = "returned" /\ task_row # NoEntry)
       => (task_row.status = task_progress.status /\ task_row.progress = task_progress.progress)

\* ============================================================= restart ====
\* The process stops and is started again: KGService() is constructed anew
\* with an empty progress map and a fresh executor; the worker thread, the
\* poll being served and the open graph session are gone with their locals.
\* Nothing at startup reads the Task rows.  pc is "lost" when the job had not
\* made its last report, "stopped" when it had.
Restart ==
    /\ pc \notin {"new", "rejected", "lost", "stopped"}
    /\ pc' = IF task_progress.status \in {"pending", "processing"} THEN "lost" ELSE "stopped"
    /\ task_progress' = NoEntry
    /\ ret' = "none" /\ pending' = NoEntry
    /\ file_count' = 0 /\ idx' = 0 /\ text_count' = 0
    /\ all_entities' = << >> /\ aligned_entities' = << >>
    /\ all_relations' = << >> /\ completed_triples' = << >>
    /\ job_kg' = NoKg
    /\ poll_pc' = "idle" /\ poll_task' = NoEntry /\ progress_data' = NoEntry
    /\ last_response' = NoEntry
    /\ session' = [k \in KgIds |->
                     IF session[k].pc \in {"user", "entities", "relations"}
                     THEN [pc |-> "lost"] ELSE session[k]]
    /\ UNCHANGED <<db_failures, documents, auxvars, task_row, graphvars, kg_rows, extravars>>

\* the job and the polls in a process that is restarted once
NextRestart == Worker \/ Poll \/ Restart
SpecRestart == Init /\ [][NextRestart]_vars

\* C12: a task that was pending or processing when the process stopped is
\* reported as failed by every poll answered after the restart.
C12_LostJobReportedFailed ==
    (pc = "lost" /\ last_response # NoEntry) => last_response.status = "failed"

\* C13: when the job has returned, the KnowledgeGraph row it created in the
\* persist stage carries the job's terminal status: completed after a
\* completed job, failed after a failed one, never processing.
C13_KgRowFollowsJob ==
    pc = "returned" => \A r \in kg_rows : r.kg_id = job_kg => r.status = task_progress.status


\* C14: every triple handed to the Graph Writer has a head id and a tail id
\* that are both ids of aligned entities of the job, also when relation
\* extraction ran with fewer than two aligned entities.
C14_TriplesOverAlignedIds ==
    session[1].pc \in {"user", "entities", "relations"} =>
        \A t \in Range(session[1].relations) :
            /\ t[1] \in {e.id : e \in Range(session[1].entities)}
            /\ t[3] \in {e.id : e \in Range(session[1].entities)}

\* SimHashPreprocessor.deduplicate: of the texts at Hamming distance <= 3 the
\* first one is kept; equal texts have equal hashes
RECURSIVE deduplicate(_)
deduplicate(texts) ==
    IF Len(texts) = 0 THEN << >>
    ELSE LET kept == deduplicate(SubSeq(texts, 1, Len(texts) - 1))
             text == texts[Len(texts)]
         IN  IF text \in Range(kept) THEN kept ELSE Append(kept, text)

\* C15: if the parsed files hold the same text more than once, entity
\* extraction and relation extraction are run on exactly one copy of it: what
\* the entity stage collected is what the deduplicated batch yields.
C15_DuplicateTextProcessedOnce ==
    (pc = "align") =>
        LET batch == deduplicate(Texts(documents))
        IN  all_entities = Concat([i \in 1..Len(batch) |-> batch[i].entities])

\* the Parse stage is at work: in its loop, or writing one of the loop's reports
InParse ==
    \/ pc \in {"parse", "parse_file"}
    \/ pc \in {"sync", "sync_commit"} /\ ret \in {"parse", "parse_file"}

\* C16: in the Parse stage a file that is missing under every probed
\* extension or fails to parse is skipped and the files after it are still
\* parsed, in input order: texts is always the readable files among those
\* visited.  The stage reports the failure of the job if and only if no file
\* yielded text.
C16_ParseSkipsBadFiles ==
    /\ InParse => text_count = Len(Texts(SubSeq(documents, 1, idx)))
    /\ (task_progress # NoEntry /\ task_progress.stage = "parse_failed")
          => (Texts(documents) = << >> /\ task_progress.status = "failed")
    /\ (task_progress # NoEntry /\ task_progress.stage = "parse_done")
          => (Texts(documents) # << >> /\ task_progress.status = "processing"
              /\ text_count = Len(Texts(documents)))
C16_Witness ==
    /\ task_progress # NoEntry /\ task_progress.stage = "parse_done"
    /\ Len(documents) = 2 /\ ~documents[1].ok /\ documents[2].ok
    /\ text_count = 1

\* the nodes that the entities of graph k's writer were merged into
WrittenKeys(k) == {<<safe_type(e.type), e.id>> : e \in Range(session[k].entities)}

\* C17: when the writer of a job returns, every entity node it wrote carries
\* the job's kg_id and is owned by the User node of the job's user_id (no
\* graph being deleted meanwhile).
C17_WrittenNodesBelongToJob ==
    [][\A k \in KgIds :
          (/\ session[k].pc \in {"entities", "relations"} /\ session'[k].pc = "done"
           /\ \A j \in KgIds : deletion[j] = "idle")
             => \A key \in WrittenKeys(k) :
                   /\ \E n \in nodes' : NodeKey(n) = key /\ n.kg_id = k
                   /\ <<session[k].user_id, key>> \in owns']_vars

\* the nodes with the given id that carry graph k's kg_id
NodesOf(k, id) == {n \in nodes : n.id = id /\ n.kg_id = k}

\* C18: every relation edge a writer adds connects two nodes that both carry
\* the writing job's kg_id, and a triple one of whose ids has no node with
\* that kg_id adds no edge.
C18_EdgesWithinGraph ==
    [][\A k \in KgIds :
          (session[k].pc = "relations" /\ session'[k].ri = session[k].ri + 1)
             => LET triple == session[k].relations[session[k].ri]
                IN  /\ \A e \in edges' \ edges :
                          /\ \E n \in nodes : NodeKey(n) = e[1] /\ n.kg_id = k
                          /\ \E n \in nodes : NodeKey(n) = e[3] /\ n.kg_id = k
                    /\ (NodesOf(k, triple[1]) = {} \/ NodesOf(k, triple[3]) = {})
                          => edges' = edges]_vars
\* one writer has added an edge, the other has written a triple whose node
\* belongs to the first graph by then
C18_Witness ==
    \E k, j \in KgIds :
        /\ k # j
        /\ session[k].pc = "done" /\ session[j].pc = "done"
        /\ Len(session[k].relations) > 0 /\ Len(session[j].relations) > 0
        /\ Cardinality(edges) = 1
        /\ \E n \in nodes : n.id = "entity_1" /\ n.kg_id = k
        /\ \A n \in nodes : n.kg_id = k

\* the relation edges that start or end at a node carrying graph k's kg_id
EdgesAt(E, N, k) == {e \in E : e[1] \in KgNodes(N, k) \/ e[3] \in KgNodes(N, k)}

\* C19: a step of the deletion of one graph leaves the nodes of every other
\* graph of the same user, and the edges at those nodes, as they are.
C19_DeleteLeavesOtherGraph ==
    [][\A k \in KgIds :
          (deletion[k] # "idle" /\ deletion'[k] # deletion[k])
             => \A j \in KgIds \ {k} :
                   (\E r1, r2 \in kg_rows :
                       r1.kg_id = k /\ r2.kg_id = j /\ r1.user_id = r2.user_id)
                      => /\ {n \in nodes' : n.kg_id = j} = {n \in nodes : n.kg_id = j}
                         /\ EdgesAt(edges', nodes', j) = EdgesAt(edges, nodes, j)]_vars

\* the stage of _build_kg_async that writes a report, by the report's stage
\* field (0: the start of the task, 1..9: Parse .. Finalize)
StageOf(stage) ==
    CASE stage = "init" -> 0
      [] stage \in {"parse", "parse_done", "parse_failed"} -> 1
      [] stage \in {"preprocess", "preprocess_done", "preprocess_failed"} -> 2
      [] stage \in {"entity", "entity_done", "entity_failed"} -> 3
      [] stage \in {"align_done", "align_failed"} -> 4
      [] stage \in {"relation", "relation_done", "relation_failed"} -> 5
      [] stage \in {"completion_done", "completion_skipped"} -> 6
      [] stage \in {"persist_done", "persist_failed"} -> 7
      [] stage \in {"visualize_done", "visualize_skipped"} -> 8
      [] stage = "done" -> 9
\* the reports a stage ends with when it has not failed (the entry a task is
\* submitted with names the stage of the start report, which follows it)
StageFinished(entry) ==
    \/ entry.stage = "init" /\ entry.status = "processing"
    \/ entry.stage \in {"parse_done", "preprocess_done", "entity_done", "align_done",
               "relation_done", "completion_done", "completion_skipped", "persist_done",
               "visualize_done", "visualize_skipped"}

\* C20: the stages of a job run in the order Parse, Preprocess, Extract
\* entities, Align, Extract relations, Complete, Persist, Visualize, Finalize:
\* a report comes from the stage of the report before it, or from the next
\* stage when that report ended its stage; after a failed report nothing is
\* reported, extracted or written.
C20_StagesInOrder ==
    [][/\ (task_progress # NoEntry /\ task_progress' # task_progress
             /\ task_progress.status # "failed" /\ task_progress'.stage # "aborted")
          => StageOf(task_progress'.stage) =
                IF StageFinished(task_progress)
                THEN StageOf(task_progress.stage) + 1
                ELSE StageOf(task_progress.stage)
       /\ (task_progress # NoEntry /\ task_progress.status = "failed")
          => UNCHANGED <<task_progress, all_entities, aligned_entities, all_relations,
                         completed_triples, job_kg, graphvars, kg_rows, session>>]_vars
C20_Witness ==
    /\ pc = "returned"
    /\ task_progress.stage = "done"
    /\ Len(documents) = MaxFiles
    /\ session[1].pc = "done"

\* ------------------------------------------------------------------------
\* SpecUnit: single calls of functions of the algorithm packages
\* ------------------------------------------------------------------------
\* everything but the call
unitframe == <<pc, ret, pending, file_count, idx, text_count, all_entities, aligned_entities,
               all_relations, completed_triples, job_kg, db_failures, documents, progvars,
               pollvars, storevars, extravars, poolvars>>

\* the texts a call is made on: what the model answers on them (entities) and
\* the relations they state
UnitTexts == {TextFile(es, ts) : es \in SeqsUpTo(JobEntityPool, 1),
                                 ts \in SeqsUpTo({<<"entity_2", "leads", "entity_1">>}, 1)}

\* what self.session.post / raise_for_status / response.json() come to
LlmFailures == {"http_5xx", "connection_error", "timeout"}
LlmOutcomes == LlmFailures \cup {"answer", "bad_json", "no_choices"}

Returned_(entities) == [raised |-> FALSE, entities |-> entities]
Raised == [raised |-> TRUE, entities |-> << >>]

\* an extract() without the handlers around the request
qwen_extract_unhandled(text, short, api_key, llm) ==
    IF llm \in LlmFailures THEN Raised
    ELSE IF llm = "answer" /\ Len(text.entities) > 0 THEN Returned_(text.entities)
    ELSE Returned_(fallback_extract(text, TRUE))

\* QwenEntityExtraction.extract(text)
qwen_extract(text, short, api_key, llm) ==
    IF short /\ Len(fallback_extract(text, FALSE)) > 0
    THEN Returned_(fallback_extract(text, FALSE))
    ELSE IF ~api_key THEN Returned_(fallback_extract(text, FALSE))
    ELSE CASE llm = "answer" ->
                 IF Len(text.entities) > 0 THEN Returned_(text.entities)
                 ELSE Returned_(fallback_extract(text, TRUE))
           [] llm = "bad_json" -> Returned_(fallback_extract(text, FALSE))
           [] llm = "no_choices" -> Returned_(fallback_extract(text, TRUE))
           \* except RequestException / except Exception, then the fallback
           [] llm \in LlmFailures -> Returned_(fallback_extract(text, TRUE))

\* one iteration of the Extract-entities stage with the LLM-backed strategy:
\* the stage fails the job if and only if extract raises
QwenExtract ==
    /\ call = NoEntry
    /\ \E text \in UnitTexts, short \in BOOLEAN, api_key \in BOOLEAN, llm \in LlmOutcomes :
          LET result == qwen_extract(text, short, api_key, llm)
          IN  call' = [fn |-> "qwen_extract", text |-> text, short |-> short,
                       api_key |-> api_key, llm |-> llm, result |-> result,
                       stage |-> IF result.raised THEN "entity_failed" ELSE "entity"]
    /\ UNCHANGED unitframe

\* mentions with ids of their own, two of them of one name
MaxMentions == 3
UnitMentions ==
    { [id |-> "m1", name |-> "baidu", type |-> "org"],
      [id |-> "m2", name |-> "baidu", type |-> "org"],
      [id |-> "m3", name |-> "wang",  type |-> "Person"],
      [id |-> "m4", name |-> "ernie", type |-> "org"] }
DistinctIds(entities) ==
    \A i, j \in 1..Len(entities) : i # j => entities[i].id # entities[j].id

\* a call of EntityAlignment.align_entities on mentions of pairwise distinct ids
AlignCall ==
    /\ call = NoEntry
    /\ \E entities \in SeqsUpTo(UnitMentions, MaxMentions) :
          /\ DistinctIds(entities)
          /\ call' = [fn |-> "align_entities", entities |-> entities,
                       result |-> align_entities(entities)]
    /\ UNCHANGED unitframe

\* ---- QwenEntityExtraction._validate_entity; a string is the sequence of
\* its characters, positions count from 0
MaxTextLen == 4
MaxShift == 2
Chars == {"a", "b", " "}
UnitStrings == SeqsUpTo(Chars, MaxTextLen)
max_length_diff == 5

\* s[a:b] for 0 <= a
Slice(s, a, b) == SubSeq(s, a + 1, IF b < Len(s) THEN b ELSE Len(s))
\* s.strip()
RECURSIVE Strip(_)
Strip(s) ==
    IF Len(s) = 0 THEN s
    ELSE IF Head(s) = " " THEN Strip(Tail(s))
    ELSE IF s[Len(s)] = " " THEN Strip(SubSeq(s, 1, Len(s) - 1))
    ELSE s
\* s.find(t)
Find(s, t) ==
    LET at == {p \in 0..(Len(s) - Len(t)) : Slice(s, p, p + Len(t)) = t}
    IN  IF at = {} THEN -1 ELSE CHOOSE p \in at : \A q \in at : p <= q
\* the length of a longest common subsequence
RECURSIVE Lcs(_, _)
Lcs(s, t) ==
    IF Len(s) = 0 \/ Len(t) = 0 THEN 0
    ELSE IF Head(s) = Head(t) THEN 1 + Lcs(Tail(s), Tail(t))
    ELSE LET l == Lcs(Tail(s), t)
             r == Lcs(s, Tail(t))
         IN  IF l > r THEN l ELSE r
\* _strings_are_similar: fuzz.ratio(str1, str2) > 60, the ratio being
\* round(100 * 2 * lcs / (len1 + len2))
strings_are_similar(str1, str2) ==
    IF Len(str1) = 0 \/ Len(str2) = 0 THEN FALSE
    ELSE \/ Find(str2, str1) # -1
         \/ Find(str1, str2) # -1
         \/ 400 * Lcs(str1, str2) >= 121 * (Len(str1) + Len(str2))

Rejected == [valid |-> FALSE]
Stored(name, start_pos, end_pos) ==
    [valid |-> TRUE, name |-> name, start_pos |-> start_pos, end_pos |-> end_pos]

\* _validate_entity(entity, original_text): the entity as it is stored, or
\* its rejection
validate_entity(name, start, end, original_text) ==
    IF start < 0 \/ end <= start \/ end > Len(original_text) + max_length_diff THEN Rejected
    ELSE LET extracted_text == IF start < Len(original_text)
                               THEN Strip(Slice(original_text, start, end)) ELSE << >>
             entity_name == Strip(name)
         IN  IF strings_are_similar(entity_name, extracted_text)
             THEN Stored(extracted_text, start, end)
             ELSE LET pos == Find(original_text, entity_name)
                  IN  IF pos # -1 THEN Stored(name, pos, pos + Len(entity_name))
                      ELSE Rejected

\* the model returns a name that occurs in the text, with offsets shifted by k
ValidateCall ==
    /\ call = NoEntry
    /\ \E text \in UnitStrings, len \in 1..MaxTextLen, p \in 0..MaxTextLen,
          k \in (0 - MaxShift)..MaxShift :
          /\ p + len <= Len(text)
          /\ LET name == Slice(text, p, p + len)
             IN  /\ Strip(name) = name
                 /\ call' = [fn |-> "validate_entity", text |-> text, name |-> name,
                              start_pos |-> p + k, end_pos |-> p + len + k,
                              result |-> validate_entity(name, p + k, p + len + k, text)]
    /\ UNCHANGED unitframe

\* the caller has the result
UnitReturn ==
    /\ call # NoEntry
    /\ call' = NoEntry
    /\ UNCHANGED unitframe

\* ---- SimHashPreprocessor.deduplicate on a batch given by the fingerprints
\* of its texts (equal texts have equal fingerprints)
FingerprintBits == 6
MaxBatch == 3
Fingerprints == {0, 7, 15, 63}
HammingThreshold == 3

\* _hamming_distance: the number of ones of hash1 ^ hash2
hamming_distance(hash1, hash2) ==
    Cardinality({i \in 0..(FingerprintBits - 1) :
                    (hash1 \div 2^i) % 2 # (hash2 \div 2^i) % 2})

\* a loop that compares a text with every text before it
RECURSIVE unique_texts_all_earlier(_)
unique_texts_all_earlier(simhashes) ==
    IF Len(simhashes) = 0 THEN << >>
    ELSE LET n == Len(simhashes)
             kept == unique_texts_all_earlier(SubSeq(simhashes, 1, n - 1))
         IN  IF \E k \in 1..(n - 1) :
                    hamming_distance(simhashes[n], simhashes[k]) <= HammingThreshold
             THEN kept ELSE Append(kept, n)

\* the loop of deduplicate: the positions of the texts it keeps, a text
\* being compared with the fingerprints kept so far
RECURSIVE unique_texts(_)
unique_texts(simhashes) ==
    IF Len(simhashes) = 0 THEN << >>
    ELSE LET n == Len(simhashes)
             kept == unique_texts(SubSeq(simhashes, 1, n - 1))
         IN  IF \E k \in Range(kept) :
                    hamming_distance(simhashes[n], simhashes[k]) <= HammingThreshold
             THEN kept ELSE Append(kept, n)

DedupCall ==
    /\ call = NoEntry
    /\ \E simhashes \in SeqsUpTo(Fingerprints, MaxBatch) :
          call' = [fn |-> "deduplicate", simhashes |-> simhashes,
                   kept |-> unique_texts(simhashes)]
    /\ UNCHANGED unitframe

InitUnit == InitCommon /\ documents = << >>
NextUnit ==
    \/ QwenExtract
    \/ AlignCall
    \/ ValidateCall
    \/ DedupCall
    \/ UnitReturn
SpecUnit == InitUnit /\ [][NextUnit]_vars

\* C21: when every call to the LLM endpoint fails (HTTP 5xx, connection
\* error, timeout), the LLM-backed entity extractor raises nothing: it returns
\* the mentions of the local fallback and the Extract-entities stage does not
\* fail.
C21_LlmFailureFallsBack ==
    (call # NoEntry /\ call.fn = "qwen_extract" /\ call.llm \in LlmFailures)
       => /\ ~call.result.raised
          /\ call.stage # "entity_failed"
          /\ call.result.entities \in {fallback_extract(call.text, TRUE),
                                       fallback_extract(call.text, FALSE)}
C21_Witness ==
    /\ call # NoEntry /\ call.fn = "qwen_extract"
    /\ call.llm = "http_5xx" /\ call.api_key /\ ~call.short
    /\ Len(call.result.entities) = 2

\* ------------------------------------------------------------------------
\* SpecPool: the tasks of one KGService on its ThreadPoolExecutor
\* ------------------------------------------------------------------------
MaxWorkers == 5
\* everything but the executor and the progress map of its tasks
poolframe == <<pc, ret, pending, file_count, idx, text_count, all_entities, aligned_entities,
               all_relations, completed_triples, job_kg, db_failures, documents, progvars,
               pollvars, storevars, extravars, call>>

\* create_knowledge_graph: the progress entry is initialised and the job is
\* submitted to the executor (task ids are fresh: tasks are numbered as they come)
PoolSubmit ==
    /\ \E t \in PoolTasks :
          /\ pool_progress[t] = NoEntry
          /\ \A u \in PoolTasks : u < t => pool_progress[u] # NoEntry
          /\ pool_progress' = [pool_progress EXCEPT ![t] = [progress |-> 0, status |-> "pending"]]
          /\ executor' = [executor EXCEPT !.work_queue = Append(@, t)]
    /\ UNCHANGED poolframe

\* a worker thread that takes work whatever the number of running threads
PoolTakeUnbounded ==
    /\ Len(executor.work_queue) > 0
    /\ LET t == Head(executor.work_queue)
       IN  /\ executor' = [work_queue |-> Tail(executor.work_queue),
                           running |-> executor.running \cup {t}]
           /\ pool_progress' = [pool_progress EXCEPT ![t] = [progress |-> 5, status |-> "processing"]]
    /\ UNCHANGED poolframe

\* a worker thread of the executor (there are at most max_workers of them,
\* each running one work item at a time) takes the oldest work item and
\* _build_kg_async writes its first report
PoolTake ==
    /\ Len(executor.work_queue) > 0
    /\ Cardinality(executor.running) < MaxWorkers
    /\ LET t == Head(executor.work_queue)
       IN  /\ executor' = [work_queue |-> Tail(executor.work_queue),
                           running |-> executor.running \cup {t}]
           /\ pool_progress' = [pool_progress EXCEPT ![t] = [progress |-> 5, status |-> "processing"]]
    /\ UNCHANGED poolframe

\* _build_kg_async writes its last report and returns: the thread is free
PoolFinish ==
    /\ \E t \in executor.running :
          /\ executor' = [executor EXCEPT !.running = @ \ {t}]
          /\ \/ pool_progress' = [pool_progress EXCEPT ![t] = [progress |-> 100, status |-> "completed"]]
             \/ pool_progress' = [pool_progress EXCEPT ![t] = [progress |-> 100, status |-> "failed"]]
    /\ UNCHANGED poolframe

InitPool == InitCommon /\ documents = << >>
NextPool == PoolSubmit \/ PoolTake \/ PoolFinish
\* a thread that can take work does so; a job need not ever return
SpecPool == InitPool /\ [][NextPool]_vars /\ WF_vars(PoolTake)

Executing == {t \in PoolTasks : pool_progress[t] # NoEntry /\ pool_progress[t].status = "processing"}
Queued(t) == \E i \in 1..Len(executor.work_queue) : executor.work_queue[i] = t

\* C22: at most 5 jobs are executing at any time; a job that waits for a
\* worker is pending with progress 0, and it comes to run unless all workers
\* are busy.
C22_AtMostFiveExecuting ==
    /\ [](Cardinality(Executing) <= MaxWorkers)
    /\ [](\A t \in PoolTasks :
             Queued(t) => pool_progress[t] = [progress |-> 0, status |-> "pending"])
    /\ \A t \in PoolTasks :
          Queued(t) ~> (t \in executor.running \/ Cardinality(executor.running) = MaxWorkers)
C22_Witness ==
    /\ Cardinality(Executing) = MaxWorkers
    /\ Len(executor.work_queue) > 0
    /\ \A t \in PoolTasks : Queued(t) => pool_progress[t].progress = 0

Statuses == {"pending", "processing", "completed", "failed"}
InRange(entry) == entry.progress \in 0..100 /\ entry.status \in Statuses

\* C23: in every state the progress of the task, in memory and in the Task
\* row, is an integer of 0..100 and its status is pending, processing,
\* completed or failed, and so are the progress and the status of every poll
\* response.
C23_ProgressAndStatusInRange ==
    /\ task_progress # NoEntry => InRange(task_progress)
    /\ task_row # NoEntry => InRange(task_row)
    /\ pending # NoEntry =>
          InRange(IF "entry" \in DOMAIN pending THEN pending.entry ELSE pending)
    /\ progress_data # NoEntry => InRange(progress_data)
    /\ last_response # NoEntry => InRange(last_response)
C23_Witness ==
    /\ last_response # NoEntry /\ last_response.progress = 100
    /\ last_response.status = "failed"
    /\ task_row.status = "failed"

\* the progress a stage reports when it ends without failing (stage 0: the
\* start report)
Budget(k) ==
    CASE k = 0 -> 5 [] k = 1 -> 15 [] k = 2 -> 25 [] k = 3 -> 40 [] k = 4 -> 50
      [] k = 5 -> 65 [] k = 6 -> 75 [] k = 7 -> 90 [] k = 8 -> 95 [] k = 9 -> 100

\* C24: a report that ends a stage without failure carries exactly the budget
\* value of the stage (5, 15, 25, 40, 50, 65, 75, 90, 95, 100), and a report
\* from inside a stage carries a value between the budget of the stage before
\* and that of its own stage.
C24_ProgressFollowsBudget ==
    (task_progress # NoEntry /\ task_progress.status \in {"processing", "completed"})
       => LET k == StageOf(task_progress.stage)
          IN  IF StageFinished(task_progress) \/ task_progress.stage = "done"
              THEN task_progress.progress = Budget(k)
              ELSE /\ k >= 1
                   /\ Budget(k - 1) <= task_progress.progress
                   /\ task_progress.progress <= Budget(k)
C24_Witness ==
    /\ task_progress # NoEntry /\ task_progress.stage = "parse"
    /\ task_progress.progress = 10 /\ file_count = 2

\* the aligned entities an id belongs to: as their id or as one of their merged_ids
GroupsOf(aligned, id) ==
    {i \in 1..Len(aligned) : aligned[i].id = id \/ id \in Range(aligned[i].merged_ids)}

\* C25: on mentions of pairwise distinct ids align_entities returns aligned
\* entities that partition the ids: every mention id is the id or one of the
\* merged_ids of exactly one aligned entity, and the aligned entities carry
\* no other id.
C25_AlignmentPartitionsIds ==
    (call # NoEntry /\ call.fn = "align_entities")
       => LET ids == {e.id : e \in Range(call.entities)}
          IN  /\ \A id \in ids : Cardinality(GroupsOf(call.result, id)) = 1
              /\ \A a \in Range(call.result) : a.id \in ids /\ Range(a.merged_ids) \subseteq ids
C25_Witness ==
    /\ call # NoEntry /\ call.fn = "align_entities"
    /\ Len(call.entities) = 3 /\ Len(call.result) = 2
    /\ \E a \in Range(call.result) : Len(a.merged_ids) = 2

\* C26: within one job every mention that entity extraction produced over the
\* job's documents has an id different from the id of every other mention.
C26_MentionIdsUnique == DistinctIds(all_entities)

\* C27: a mention whose name occurs in the text and whose offsets are shifted
\* by at most 5 characters (here: to offsets that still lie in the text) is
\* stored with the name the model returned and with offsets at which the text
\* reads exactly that name.
C27_ShiftedOffsetsCorrected ==
    (/\ call # NoEntry /\ call.fn = "validate_entity"
     /\ call.start_pos >= 0 /\ call.end_pos <= Len(call.text))
       => /\ call.result.valid
          /\ call.result.name = call.name
          /\ Slice(call.text, call.result.start_pos, call.result.end_pos) = call.name

Near(simhashes, i, j) == hamming_distance(simhashes[i], simhashes[j]) <= HammingThreshold
Increasing(s) == \A i, j \in 1..Len(s) : i < j => s[i] < s[j]

\* C28, as stated: deduplicate keeps a text if and only if no earlier text of
\* the input list has a fingerprint within Hamming distance 3 of its own, and
\* the output is in input order.
C28_KeptIffNoEarlierNear ==
    (call # NoEntry /\ call.fn = "deduplicate")
       => /\ \A n \in 1..Len(call.simhashes) :
                n \in Range(call.kept)
                   <=> ~\E k \in 1..(n - 1) : Near(call.simhashes, n, k)
          /\ Increasing(call.kept)

\* C28, amended: deduplicate keeps a text if and only if no earlier text that
\* it kept has a fingerprint within Hamming distance 3 of its own; the output
\* is in input order, and of equal texts only the first one is kept.
C28_KeptIffNoKeptNear ==
    (call # NoEntry /\ call.fn = "deduplicate")
       => /\ \A n \in 1..Len(call.simhashes) :
                n \in Range(call.kept)
                   <=> ~\E k \in Range(call.kept) : k < n /\ Near(call.simhashes, n, k)
          /\ Increasing(call.kept)
          /\ \A n, k \in 1..Len(call.simhashes) :
                (k < n /\ call.simhashes[k] = call.simhashes[n]) => n \notin Range(call.kept)
C28_Witness ==
    /\ call # NoEntry /\ call.fn = "deduplicate"
    /\ call.simhashes = <<0, 7, 63>>
    /\ call.kept = <<1, 3>>

\* C29: when _build_kg_async has returned, the status of the task in memory
\* is completed or failed, whichever return statement or handler ended it.
C29_ReturnedJobIsFinal ==
    pc = "returned" => task_progress.status \in {"completed", "failed"}
C29_Witness ==
    /\ pc = "returned"
    /\ task_progress.status = "failed" /\ task_progress.stage = "persist_failed"
    /\ session[1].pc = "failed"

\* C30: TransE training terminates for every non-empty list of observed
\* triples, a self-loop over a single entity included: the Complete stage
\* never stays inside train().
C30_TrainingTerminates == pc # "training"
====
